---- MODULE Spec2Model ----
(***************************************************************************)
(* Model of data/process_data.py: the ETL pipeline                         *)
(*     main -> load_data -> clean_data -> save_data.                       *)
(*                                                                         *)
(* A Python string is a sequence of one-character strings, so that         *)
(* str.split, x[:-2], x[-1:] and int() are computed and not assumed.       *)
(* A pandas DataFrame is a record                                          *)
(*     [columns : sequence of labels, index : sequence of row labels,      *)
(*      data : sequence of rows, each a sequence of cells]                 *)
(* A function that can raise returns [ok |-> BOOLEAN, ...] with the        *)
(* exception's name in err when ok is FALSE.                               *)
(***************************************************************************)
EXTENDS Integers, Sequences, FiniteSets, TLC

VARIABLES pc, argc, messages, categories, df, store, stdout, calls, err

vars == <<pc, argc, messages, categories, df, store, stdout, calls, err>>

(***************************************************************************)
(* Bounds of the explored inputs.                                          *)
(***************************************************************************)
MaxMessages == 2        \* rows of the messages file
MaxCategories == 2      \* rows of the categories file
MaxArgc == 4            \* command-line arguments after the program name

(***************************************************************************)
(* Column labels and the literals of the code, as character sequences.     *)
(***************************************************************************)
id_col == <<"i", "d">>
message_col == <<"m", "e", "s", "s", "a", "g", "e">>
categories_col == <<"c", "a", "t", "e", "g", "o", "r", "i", "e", "s">>
related == <<"r", "e", "l", "a", "t", "e", "d">>
child_alone == <<"c", "h", "i", "l", "d", "_", "a", "l", "o", "n", "e">>
request == <<"r", "e", "q", "u", "e", "s", "t">>
index_col == <<"i", "n", "d", "e", "x">>

\* the cell pandas puts where str.split(expand=True) has no entry
None == <<"None">>
\* the cell pandas puts where an axis=1 concat has no row for a label
NaN == -1

Digits == {"0", "1", "2", "3", "4", "5", "6", "7", "8", "9"}

DigitValue(c) ==
    CASE c = "0" -> 0 [] c = "1" -> 1 [] c = "2" -> 2 [] c = "3" -> 3
      [] c = "4" -> 4 [] c = "5" -> 5 [] c = "6" -> 6 [] c = "7" -> 7
      [] c = "8" -> 8 [] c = "9" -> 9

Range(s) == {s[i] : i \in 1..Len(s)}

\* pandas' default index of a freshly read or merged frame
RangeIndex(n) == [i \in 1..n |-> i - 1]

\* position of a label in a sequence of labels, 0 when absent
PosOf(label, labels) ==
    IF \E k \in 1..Len(labels) : labels[k] = label
    THEN CHOOSE k \in 1..Len(labels) :
             labels[k] = label /\ \A j \in 1..(k - 1) : labels[j] # label
    ELSE 0

\* a sequence without its k-th element
RemoveAt(s, k) == [i \in 1..(Len(s) - 1) |-> IF i < k THEN s[i] ELSE s[i + 1]]

RECURSIVE Flatten(_)
Flatten(ss) == IF ss = <<>> THEN <<>> ELSE Head(ss) \o Flatten(Tail(ss))

\* the subsequence of s at the positions where keep is TRUE
RECURSIVE SelectAt(_, _)
SelectAt(s, keep) ==
    IF s = <<>> THEN <<>>
    ELSE (IF Head(keep) THEN <<Head(s)>> ELSE <<>>)
             \o SelectAt(Tail(s), Tail(keep))

(***************************************************************************)
(* The input files.  A packed categories string is written entry by entry. *)
(***************************************************************************)
Entry(name, value) == name \o <<"-", value>>

RECURSIVE Pack(_)
Pack(entries) ==
    IF Len(entries) = 1 THEN Head(entries)
    ELSE Head(entries) \o <<";">> \o Pack(Tail(entries))

PackedSamples ==
    { Pack(<<Entry(related, "1"), Entry(request, "0"), Entry(child_alone, "0")>>),
      Pack(<<Entry(related, "2"), Entry(request, "1"), Entry(child_alone, "0")>>),
      Pack(<<Entry(request, "3"), Entry(related, "0"), Entry(child_alone, "1")>>),
      Pack(<<Entry(related, "1"), Entry(request, "0")>>),
      Pack(<<Entry(related, "1"), Entry(request, "x"), Entry(child_alone, "0")>>) }

Ids == {1, 2}

MessageRows == {<<1, "flood">>, <<1, "ok">>, <<2, "flood">>}

SeqsUpTo(S, n) == UNION {[1..k -> S] : k \in 0..n}

MessageFiles == SeqsUpTo(MessageRows, MaxMessages)
CategoryFiles == SeqsUpTo(Ids \X PackedSamples, MaxCategories)

EmptyFrame == [columns |-> <<>>, index |-> <<>>, data |-> <<>>]

(***************************************************************************)
(* load_data                                                               *)
(***************************************************************************)
\* pd.read_csv of a file with the given header and rows
ReadCsv(header, rows) ==
    [columns |-> header, index |-> RangeIndex(Len(rows)), data |-> rows]

\* faulty variant: a lookup that takes only the first right row with the key
MergeRowsOfFirstHit(lrow, right, lk, rk) ==
    LET match == [j \in 1..Len(right.data) |-> right.data[j][rk] = lrow[lk]]
        hits == SelectAt(right.data, match)
    IN  IF hits = <<>> THEN <<>> ELSE <<lrow \o RemoveAt(hits[1], rk)>>

\* the rows of left.merge(right, how='inner', on=key) that come from one
\* left row: one per right row with the same key, in the right's order
MergeRowsOf(lrow, right, lk, rk) ==
    LET match == [j \in 1..Len(right.data) |-> right.data[j][rk] = lrow[lk]]
        hits == SelectAt(right.data, match)
    IN  [j \in 1..Len(hits) |-> lrow \o RemoveAt(hits[j], rk)]

\* faulty variant: how='cross', every left row with every right row
MergeCross(left, right, key) ==
    LET rk == PosOf(key, right.columns)
        rows == Flatten([i \in 1..Len(left.data) |->
                            [j \in 1..Len(right.data) |->
                                left.data[i] \o RemoveAt(right.data[j], rk)]])
    IN  [columns |-> left.columns \o RemoveAt(right.columns, rk),
         index |-> RangeIndex(Len(rows)),
         data |-> rows]

Merge(left, right, key) ==
    LET lk == PosOf(key, left.columns)
        rk == PosOf(key, right.columns)
        rows == Flatten([i \in 1..Len(left.data) |->
                             MergeRowsOf(left.data[i], right, lk, rk)])
    IN  [columns |-> left.columns \o RemoveAt(right.columns, rk),
         index |-> RangeIndex(Len(rows)),
         data |-> rows]

load_data(messages_file, categories_file) ==
    Merge(ReadCsv(<<id_col, message_col>>, messages_file),
          ReadCsv(<<id_col, categories_col>>, categories_file),
          id_col)

(***************************************************************************)
(* clean_data                                                              *)
(***************************************************************************)
\* str.split(sep) of Python: the pieces of s between the occurrences of
\* sep, one more piece than there are occurrences
Split(s, sep) ==
    LET at == {i \in 1..Len(s) : s[i] = sep}
        cut(k) == IF k = 0 THEN 0
                  ELSE IF k > Cardinality(at) THEN Len(s) + 1
                  ELSE CHOOSE i \in at : Cardinality({j \in at : j < i}) = k - 1
    IN  [k \in 1..(Cardinality(at) + 1) |-> SubSeq(s, cut(k - 1) + 1, cut(k) - 1)]

SeqMax(ns) ==
    IF ns = <<>> THEN 0
    ELSE CHOOSE m \in Range(ns) : \A n \in Range(ns) : n <= m

\* df[col].str.split(';', expand=True): one column per position, as many
\* columns as the longest row has pieces, None where a row has fewer
StrSplitExpand(frame, col) ==
    LET c == PosOf(col, frame.columns)
        parts == [i \in 1..Len(frame.data) |-> Split(frame.data[i][c], ";")]
        width == SeqMax([i \in 1..Len(parts) |-> Len(parts[i])])
    IN  [columns |-> [k \in 1..width |-> k - 1],
         index |-> frame.index,
         data |-> [i \in 1..Len(parts) |->
                      [k \in 1..width |->
                          IF k <= Len(parts[i]) THEN parts[i][k] ELSE None]]]

\* lambda x: x[:-2]
StripLast2(x) == IF Len(x) <= 2 THEN <<>> ELSE SubSeq(x, 1, Len(x) - 2)

\* lambda x: x[-1:]
LastChar(x) == IF x = <<>> THEN <<>> ELSE <<x[Len(x)]>>

\* int(x) of a string of at most one character succeeds on a digit only
IsIntLiteral(x) == Len(x) = 1 /\ x[1] \in Digits

\* row.transform(lambda x: x[:-2]).tolist() : a None cell has no slice
category_colnames(row) == [k \in 1..Len(row) |-> StripLast2(row[k])]

\* faulty variant: drop without inplace=True, its result discarded
DropColumnDiscarded(frame, label) == frame

\* df.drop(label, axis=1): every column with that label goes
DropColumn(frame, label) ==
    LET keep == [k \in 1..Len(frame.columns) |-> frame.columns[k] # label]
    IN  [columns |-> SelectAt(frame.columns, keep),
         index |-> frame.index,
         data |-> [i \in 1..Len(frame.data) |-> SelectAt(frame.data[i], keep)]]

\* pd.concat([a, b], axis=1): rows are aligned on their index label; the
\* labels of a come first, then those only b has; a missing side is NaN
Concat(a, b) ==
    LET onlyb == [i \in 1..Len(b.index) |-> b.index[i] \notin Range(a.index)]
        labels == a.index \o SelectAt(b.index, onlyb)
        RowOf(f, label) ==
            IF label \in Range(f.index)
            THEN f.data[PosOf(label, f.index)]
            ELSE [k \in 1..Len(f.columns) |-> NaN]
    IN  [columns |-> a.columns \o b.columns,
         index |-> labels,
         data |-> [i \in 1..Len(labels) |->
                      RowOf(a, labels[i]) \o RowOf(b, labels[i])]]

\* faulty variant: the filtered frame is not assigned back
FilterNotEqualDiscarded(frame, col, value) == frame

\* df[df[col] != value]: the rows keep their index labels
FilterNotEqual(frame, col, value) ==
    LET c == PosOf(col, frame.columns)
        keep == [i \in 1..Len(frame.data) |-> frame.data[i][c] # value]
    IN  [columns |-> frame.columns,
         index |-> SelectAt(frame.index, keep),
         data |-> SelectAt(frame.data, keep)]

\* faulty variant: drop_duplicates(keep='last')
DropDuplicatesKeepLast(frame) ==
    LET keep == [i \in 1..Len(frame.data) |->
                    \A j \in (i + 1)..Len(frame.data) :
                        frame.data[j] # frame.data[i]]
    IN  [columns |-> frame.columns,
         index |-> SelectAt(frame.index, keep),
         data |-> SelectAt(frame.data, keep)]

\* df.drop_duplicates(): a row goes when an earlier row has the same cells
DropDuplicates(frame) ==
    LET keep == [i \in 1..Len(frame.data) |->
                    \A j \in 1..(i - 1) : frame.data[j] # frame.data[i]]
    IN  [columns |-> frame.columns,
         index |-> SelectAt(frame.index, keep),
         data |-> SelectAt(frame.data, keep)]

\* faulty variant: every row is given the first row's value of the column
NormalizeFromFirstRow(split) ==
    [i \in 1..Len(split.data) |->
        [k \in 1..Len(split.columns) |->
            DigitValue(LastChar(split.data[1][k])[1])]]

\* the loop of step 1d: each cell becomes the integer of its last character
Normalize(split) ==
    [i \in 1..Len(split.data) |->
        [k \in 1..Len(split.columns) |->
            DigitValue(LastChar(split.data[i][k])[1])]]

Raise(e) == [ok |-> FALSE, err |-> e, df |-> EmptyFrame]

Return(frame) == [ok |-> TRUE, err |-> "none", df |-> frame]

clean_data(frame) ==
    LET split == StrSplitExpand(frame, categories_col)
        n == Len(split.columns)
        row == IF split.data = <<>> THEN <<>> ELSE split.data[1]
        names == category_colnames(row)
        cells == {split.data[i][k] : i \in 1..Len(split.data), k \in 1..n}
        parsed == [columns |-> names,
                   index |-> split.index,
                   data |-> Normalize(split)]
        spliced == Concat(DropColumn(frame, categories_col), parsed)
    IN  IF split.data = <<>> THEN Raise("IndexError")
        ELSE IF None \in cells THEN Raise("ValueError")
        ELSE IF Cardinality(Range(names)) # n THEN Raise("ValueError")
        ELSE IF \E x \in cells : ~IsIntLiteral(LastChar(x))
             THEN Raise("ValueError")
        ELSE IF child_alone \notin Range(spliced.columns)
             THEN Raise("KeyError")
        ELSE IF related \notin Range(spliced.columns)
             THEN Raise("KeyError")
        ELSE Return(DropDuplicates(
                        FilterNotEqual(DropColumn(spliced, child_alone),
                                       related, 2)))

(***************************************************************************)
(* save_data                                                               *)
(***************************************************************************)
NoTable == [exists |-> FALSE, columns |-> <<>>, rows |-> <<>>]

\* DataFrame.to_sql(name, engine, index=..., if_exists=...) on the table
\* of that name: with index=True the row labels are written as a first
\* column; 'replace' drops an existing table, 'append' adds to it
ToSql(table, frame, index, if_exists) ==
    LET cols == IF index THEN <<index_col>> \o frame.columns
                ELSE frame.columns
        rows == [i \in 1..Len(frame.data) |->
                    IF index THEN <<frame.index[i]>> \o frame.data[i]
                    ELSE frame.data[i]]
        fresh == [exists |-> TRUE, columns |-> cols, rows |-> rows]
    IN  IF ~table.exists \/ if_exists = "replace"
        THEN [ok |-> TRUE, table |-> fresh]
        ELSE IF if_exists = "append" /\ table.columns = cols
        THEN [ok |-> TRUE,
              table |-> [fresh EXCEPT !.rows = table.rows \o rows]]
        ELSE [ok |-> FALSE, table |-> table]

\* faulty variant: if_exists='append'
save_data_append(frame, table) == ToSql(table, frame, FALSE, "append")

save_data(frame, table) == ToSql(table, frame, FALSE, "replace")

(***************************************************************************)
(* main: pc is the statement main is about to execute.                     *)
(*   "main"        the test of len(sys.argv)                               *)
(*   "load_data"   the call of load_data      (line 97)                    *)
(*   "clean_data"  the call of clean_data     (line 100)                   *)
(*   "save_data"   the call of save_data      (line 103)                   *)
(*   "returned"    main has returned                                       *)
(*   "raised"      an exception has left main                              *)
(* store is the table 'df' of the database file, which outlives the run;   *)
(* calls lists the stages called so far; messages and categories are the   *)
(* contents of the two files as load_data read them.                       *)
(***************************************************************************)
Stages == <<"load_data", "clean_data", "save_data">>

\* what an earlier run, or anything else, may have left in the database
PriorTables ==
    { NoTable,
      [exists |-> TRUE,
       columns |-> <<id_col, message_col, related, request>>,
       rows |-> << <<2, "flood", 1, 1>> >>] }

Init ==
    /\ pc = "main"
    /\ argc \in 0..MaxArgc
    /\ messages = <<>>
    /\ categories = <<>>
    /\ df = EmptyFrame
    /\ store \in PriorTables
    /\ stdout = <<>>
    /\ calls = <<>>
    /\ err = "none"

\* faulty variant: len(sys.argv) >= 4
ArgsAtLeast(n) == n + 1 >= 4

\* len(sys.argv) == 4, the program name included
ArgsOk(n) == n + 1 = 4

Main_Usage ==
    /\ pc = "main"
    /\ ~ArgsOk(argc)
    /\ stdout' = Append(stdout, "Please provide the filepaths")
    /\ pc' = "returned"
    /\ UNCHANGED <<argc, messages, categories, df, store, calls, err>>

Main_Start ==
    /\ pc = "main"
    /\ ArgsOk(argc)
    /\ stdout' = Append(stdout, "Loading data...")
    /\ pc' = "load_data"
    /\ UNCHANGED <<argc, messages, categories, df, store, calls, err>>

Main_Load ==
    /\ pc = "load_data"
    /\ calls' = Append(calls, "load_data")
    /\ \E m \in MessageFiles, c \in CategoryFiles :
          /\ messages' = m
          /\ categories' = c
          /\ df' = load_data(m, c)
    /\ stdout' = Append(stdout, "Cleaning data...")
    /\ pc' = "clean_data"
    /\ UNCHANGED <<argc, store, err>>

\* pd.read_csv of a path that cannot be read
Main_LoadFails ==
    /\ pc = "load_data"
    /\ calls' = Append(calls, "load_data")
    /\ err' = "FileNotFoundError"
    /\ pc' = "raised"
    /\ UNCHANGED <<argc, messages, categories, df, store, stdout>>

\* faulty variant: the exception of clean_data is swallowed and main goes on to
\* save the table it has
Main_CleanSwallowsError ==
    /\ pc = "clean_data"
    /\ calls' = Append(calls, "clean_data")
    /\ LET r == clean_data(df)
       IN  /\ df' = IF r.ok THEN r.df ELSE df
           /\ err' = r.err
    /\ stdout' = Append(stdout, "Saving data...")
    /\ pc' = "save_data"
    /\ UNCHANGED <<argc, messages, categories, store>>

Main_Clean ==
    /\ pc = "clean_data"
    /\ calls' = Append(calls, "clean_data")
    /\ LET r == clean_data(df)
       IN  IF r.ok
           THEN /\ df' = r.df
                /\ stdout' = Append(stdout, "Saving data...")
                /\ pc' = "save_data"
                /\ err' = err
           ELSE /\ err' = r.err
                /\ pc' = "raised"
                /\ UNCHANGED <<df, stdout>>
    /\ UNCHANGED <<argc, messages, categories, store>>

Main_Save ==
    /\ pc = "save_data"
    /\ calls' = Append(calls, "save_data")
    /\ LET r == save_data(df, store)
       IN  IF r.ok
           THEN /\ store' = r.table
                /\ stdout' = Append(stdout, "Cleaned data saved to database!")
                /\ pc' = "returned"
                /\ err' = err
           ELSE /\ err' = "ValueError"
                /\ pc' = "raised"
                /\ UNCHANGED <<store, stdout>>
    /\ UNCHANGED <<argc, messages, categories, df>>

\* create_engine / to_sql on a path that cannot be written
Main_SaveFails ==
    /\ pc = "save_data"
    /\ calls' = Append(calls, "save_data")
    /\ err' = "OperationalError"
    /\ pc' = "raised"
    /\ UNCHANGED <<argc, messages, categories, df, store, stdout>>

Next ==
    \/ Main_Usage
    \/ Main_Start
    \/ Main_Load
    \/ Main_LoadFails
    \/ Main_Clean
    \/ Main_Save
    \/ Main_SaveFails

Spec == Init /\ [][Next]_vars

(***************************************************************************)
(* What the claims speak of, stated apart from the operators above.        *)
(***************************************************************************)
Min(a, b) == IF a <= b THEN a ELSE b

IsPrefix(s, t) == Len(s) <= Len(t) /\ \A i \in 1..Len(s) : s[i] = t[i]

\* the table load_data returned in this run: the argument of clean_data
Joined == load_data(messages, categories)

\* the pairs (message row, category row) with the same id
MatchingPairs ==
    {p \in (1..Len(messages)) \X (1..Len(categories)) :
        messages[p[1]][1] = categories[p[2]][1]}

PairRow(p) == <<messages[p[1]][1], messages[p[1]][2], categories[p[2]][2]>>

IdsUnique(file) ==
    \A i, j \in 1..Len(file) : file[i][1] = file[j][1] => i = j

\* clean_data has returned normally in this run
CleanReturned == "Saving data..." \in Range(stdout)

SaveReturned == "Cleaned data saved to database!" \in Range(stdout)

\* the names in the entries of a joined table's first packed string
FirstNames(J) ==
    LET entries == Split(J.data[1][3], ";")
    IN  [k \in 1..Len(entries) |-> SubSeq(entries[k], 1, Len(entries[k]) - 2)]

\* the integers of the last characters of the entries of a packed string
ValuesOf(packed) ==
    LET entries == Split(packed, ";")
    IN  [k \in 1..Len(entries) |-> DigitValue(entries[k][Len(entries[k])])]

\* the cleaned row a joined row stands for: its own id and message, then
\* its own values at every position but child_alone's
ExpectedRow(jrow, names) ==
    LET keep == [k \in 1..Len(names) |-> names[k] # child_alone]
    IN  <<jrow[1], jrow[2]>> \o SelectAt(ValuesOf(jrow[3]), keep)

ParsedRelated(jrow, names) == ValuesOf(jrow[3])[PosOf(related, names)]

TypeOK ==
    /\ pc \in {"main", "load_data", "clean_data", "save_data", "returned", "raised"}
    /\ argc \in 0..MaxArgc
    /\ IsPrefix(calls, Stages)

\* C1: the table load_data returns has exactly one row per pair of a
\* message row and a category row with the same id: every row comes from
\* such a pair, and the row count is the number of pairs.
C1_JoinOnePerPair ==
    pc = "clean_data" =>
        /\ Len(df.data) = Cardinality(MatchingPairs)
        /\ \A r \in 1..Len(df.data) :
              /\ \E p \in MatchingPairs : df.data[r] = PairRow(p)
              /\ \E i \in 1..Len(messages) : messages[i][1] = df.data[r][1]
              /\ \E j \in 1..Len(categories) : categories[j][1] = df.data[r][1]
        /\ \A p \in MatchingPairs :
              Cardinality({r \in 1..Len(df.data) : df.data[r] = PairRow(p)})
                  = Cardinality({q \in MatchingPairs : PairRow(q) = PairRow(p)})

\* an id repeated in messages multiplies, an id of categories without a
\* message is dropped
C1_Witness ==
    /\ pc = "clean_data"
    /\ Len(messages) = 2 /\ messages[1][1] = 1 /\ messages[2][1] = 1
    /\ Len(categories) = 2 /\ categories[1][1] = 1 /\ categories[2][1] = 2
    /\ Len(df.data) = 2

\* C2 as stated: the joined table has at most min(|messages|, |categories|)
\* rows, repeated ids included.
C2_RowCountAtMostMin ==
    pc = "clean_data" => Len(df.data) <= Min(Len(messages), Len(categories))

\* C2 amended: the joined table has at most |messages| * |categories| rows,
\* and at most min(|messages|, |categories|) rows when no id is repeated
\* within either input.
C2_RowCountBound ==
    pc = "clean_data" =>
        /\ Len(df.data) <= Len(messages) * Len(categories)
        /\ (IdsUnique(messages) /\ IdsUnique(categories)) =>
               Len(df.data) <= Min(Len(messages), Len(categories))

C2_Witness ==
    /\ pc = "clean_data"
    /\ IdsUnique(messages) /\ IdsUnique(categories)
    /\ Len(messages) = 2 /\ Len(categories) = 2
    /\ Len(df.data) = 2

\* C3: when clean_data returns, no row has related = 2, and every joined
\* row whose parsed related value is not 2 has its cleaned row in the output.
C3_NoRelatedTwo ==
    CleanReturned =>
        LET J == Joined
            names == FirstNames(J)
            rc == PosOf(related, df.columns)
        IN  /\ rc # 0
            /\ \A r \in 1..Len(df.data) : df.data[r][rc] # 2
            /\ \A q \in 1..Len(J.data) :
                  ParsedRelated(J.data[q], names) # 2 =>
                      \E r \in 1..Len(df.data) :
                          df.data[r] = ExpectedRow(J.data[q], names)

\* a row with related-2 was joined and removed, another one was kept
C3_Witness ==
    /\ CleanReturned
    /\ Len(Joined.data) = 2
    /\ ParsedRelated(Joined.data[2], FirstNames(Joined)) = 2
    /\ Len(df.data) = 1

\* C4: when clean_data returns, no two rows of the output are equal in
\* every column; of the rows that pass the filter and are equal, exactly the
\* first in input order is kept, and the kept rows are in input order.
C4_NoDuplicatesFirstKept ==
    CleanReturned =>
        LET J == Joined
            names == FirstNames(J)
            expected == [q \in 1..Len(J.data) |-> ExpectedRow(J.data[q], names)]
            passed == {q \in 1..Len(J.data) : ParsedRelated(J.data[q], names) # 2}
            first == {q \in passed :
                         \A q2 \in passed : q2 < q => expected[q2] # expected[q]}
        IN  /\ \A r1, r2 \in 1..Len(df.data) :
                  r1 < r2 => /\ df.data[r1] # df.data[r2]
                             /\ df.index[r1] < df.index[r2]
            /\ Range(df.index) = {q - 1 : q \in first}
            /\ Len(df.index) = Len(df.data)

\* two joined rows were equal and one row is left
C4_Witness ==
    /\ CleanReturned
    /\ Len(Joined.data) = 2
    /\ Joined.data[1] = Joined.data[2]
    /\ Len(df.data) = 1

\* C5 as stated: when clean_data returns, every cell of every category
\* column is 0 or 1, whatever digits the packed strings carry.
C5_CellsZeroOrOne ==
    CleanReturned =>
        \A r \in 1..Len(df.data) :
            \A k \in 3..Len(df.columns) : df.data[r][k] \in {0, 1}

C7_UsageOnly ==
    /\ [][(pc = "main" /\ argc # 3) =>
              /\ pc' = "returned"
              /\ stdout' = <<"Please provide the filepaths">>
              /\ store' = store
              /\ calls' = <<>>]_vars
    /\ [](argc # 3 => /\ calls = <<>>
                      /\ pc \in {"main", "returned"}
                      /\ store \in PriorTables
                      /\ df = EmptyFrame
                      /\ err = "none")
    /\ [][(pc = "main" /\ argc = 3) => pc' = "load_data"]_vars

C7_Witness ==
    /\ argc = 4
    /\ pc = "returned"
    /\ stdout = <<"Please provide the filepaths">>
    /\ store.exists

\* C8: the stages run at most once each, in the order load_data,
\* clean_data, save_data; save_data starts only after the other two have
\* returned without error; the store changes only in save_data, so a run
\* that fails in loading or cleaning writes nothing; the completion message
\* is printed only after save_data has completed.
C8_StagesInOrder ==
    /\ [](IsPrefix(calls, Stages))
    /\ [](pc = "save_data" =>
              /\ calls = <<"load_data", "clean_data">>
              /\ err = "none"
              /\ CleanReturned)
    /\ [][store' # store =>
              /\ pc = "save_data"
              /\ calls = <<"load_data", "clean_data">>
              /\ err = "none"]_vars
    /\ []((pc = "raised" /\ calls # Stages) => store \in PriorTables)
    /\ [](SaveReturned => /\ calls = Stages
                          /\ pc = "returned"
                          /\ store.exists
                          /\ store.rows = df.data)

\* cleaning failed and the earlier table is still in the store
C8_Witness ==
    /\ pc = "raised"
    /\ calls = <<"load_data", "clean_data">>
    /\ err = "ValueError"
    /\ store.exists
    /\ ~SaveReturned

\* C9: after save_data completes, the store's table has exactly the
\* columns and rows of the cleaned table, with no index column and nothing
\* of the table that was there before.
C9_StoreIsTheTable ==
    SaveReturned =>
        store = [exists |-> TRUE, columns |-> df.columns, rows |-> df.data]

\* a table whose row labels are not 0, 1, ... was saved
C9_Witness ==
    /\ SaveReturned
    /\ Len(df.data) = 1
    /\ df.index = <<1>>
    /\ index_col \notin Range(store.columns)
    /\ store.rows = df.data

\* C10: every row of the cleaned output of load_data's table carries the
\* id and message of one joined row and the values parsed from that same
\* row's packed string, position by position.
C10_RowsAligned ==
    CleanReturned =>
        LET J == Joined
            names == FirstNames(J)
        IN  \A r \in 1..Len(df.data) :
                /\ df.index[r] + 1 \in 1..Len(J.data)
                /\ df.data[r] = ExpectedRow(J.data[df.index[r] + 1], names)

\* the join dropped a message and the two kept rows differ in id and values
C10_Witness ==
    /\ CleanReturned
    /\ Len(df.data) = 2
    /\ df.data[1][1] # df.data[2][1]
    /\ df.data[1][3] # df.data[2][3]
    /\ Len(categories) = 2

====
